---- MODULE Spec2Model ----
(***************************************************************************)
(* Loan lifecycle and SHU (profit sharing) engine of the cooperative       *)
(* back office: approveLoan, createLoan, processPayment, calculateSHU and  *)
(* distributeSHU over the relational store of db/schema.ts.                *)
(*                                                                         *)
(* Conventions                                                             *)
(*  - A JavaScript number is an exact rational [n |-> num, d |-> den]      *)
(*    (d > 0, reduced). Money numbers are counted in cents, rates in       *)
(*    percent. The binary rounding of a double is not modelled; the        *)
(*    decimal rounding of the store's numeric(p,2) columns is.             *)
(*  - A numeric(15,2) column holds an integer number of cents, a           *)
(*    numeric(5,2) column an integer number of hundredths.                 *)
(*  - A timestamp is a day number; day 0 is 1 January of year 0 of a       *)
(*    calendar of 365-day years.                                           *)
(*  - Null (-1) is SQL NULL in integer and timestamp columns.              *)
(*  - A call of a handler is one step, unless the steps of two calls are   *)
(*    interleaved: then calls holds, for each client, the position of its  *)
(*    call between two statements and what the call has read.              *)
(***************************************************************************)
EXTENDS Integers, Sequences, FiniteSets, TLC

VARIABLES now, users, savings, loans, schedules, transactions,
          shuCalculations, shuDistributions, last, calls

vars == <<now, users, savings, loans, schedules, transactions,
          shuCalculations, shuDistributions, last, calls>>

Null == -1

-----------------------------------------------------------------------------
(* JavaScript numbers as exact rationals *)

Abs(x) == IF x < 0 THEN -x ELSE x

RECURSIVE GCD(_, _)
GCD(a, b) == IF b = 0 THEN a ELSE GCD(b, a % b)

Norm(num, den) ==
    LET g == GCD(Abs(num), den)
    IN  [n |-> IF num < 0 THEN -(Abs(num) \div g) ELSE num \div g,
         d |-> den \div g]

R(num, den) == Norm(num, den)

Zero == [n |-> 0, d |-> 1]

One == [n |-> 1, d |-> 1]

RNeg(x) == [n |-> -x.n, d |-> x.d]

RAdd(x, y) ==
    LET g == GCD(x.d, y.d)
        l == (x.d \div g) * y.d
    IN  Norm(x.n * (l \div x.d) + y.n * (l \div y.d), l)

RSub(x, y) == RAdd(x, RNeg(y))

RMul(x, y) ==
    LET g1 == GCD(Abs(x.n), y.d)
        g2 == GCD(Abs(y.n), x.d)
        sgn == IF (x.n < 0) # (y.n < 0) THEN -1 ELSE 1
    IN  Norm(sgn * ((Abs(x.n) \div g1) * (Abs(y.n) \div g2)),
             (x.d \div g2) * (y.d \div g1))

\* x / y for y # 0
RDiv(x, y) ==
    RMul(x, [n |-> IF y.n < 0 THEN -y.d ELSE y.d, d |-> Abs(y.n)])

RLess(x, y) == x.n * y.d < y.n * x.d

RGeq(x, y) == ~RLess(x, y)

RInt(k) == [n |-> k, d |-> 1]

\* Math.pow(x, k) for a non-negative integer k
RECURSIVE RPow(_, _)
RPow(x, k) == IF k = 0 THEN One ELSE RMul(x, RPow(x, k - 1))

\* Math.ceil(x)
RCeil(x) == -((-x.n) \div x.d)

-----------------------------------------------------------------------------
(* number -> text -> numeric(p,2) column: the store rounds the decimal     *)
(* text to two fractional digits, half away from zero                      *)

ToNumeric(x) ==
    LET a == Abs(x.n)
        q == (2 * a + x.d) \div (2 * x.d)
    IN  IF x.n < 0 THEN -q ELSE q

\* parseFloat of the text of a numeric(p,2) column
ParseFloat(c) == RInt(c)

-----------------------------------------------------------------------------
(* Date: JavaScript calendar arithmetic on day numbers *)

MonthDays == <<31, 28, 31, 30, 31, 30, 31, 31, 30, 31, 30, 31>>

RECURSIVE CumDays(_)
CumDays(m) == IF m = 0 THEN 0 ELSE CumDays(m - 1) + MonthDays[m]

YearOf(t) == t \div 365

MonthOf(t) ==
    CHOOSE m \in 0..11 : CumDays(m) <= t % 365 /\ t % 365 < CumDays(m + 1)

DateOf(t) == (t % 365) - CumDays(MonthOf(t))

\* new Date(y, m, d): months and days beyond their range carry over
MakeDate(y, m, d) == (y + (m \div 12)) * 365 + CumDays(m % 12) + d

\* d = new Date(t); d.setMonth(d.getMonth() + i)
AddMonths(t, i) == MakeDate(YearOf(t), MonthOf(t) + i, DateOf(t))

-----------------------------------------------------------------------------
(* Bounds and input domains *)

\* first day of the model's clock: 15 March of year 1
Today == 438

\* the clock stops Horizon days after Today
Horizon == 32

\* days the clock advances in one step
TickSteps == {32}

\* rows the loans table may hold
MaxLoans == 1

\* rows of shu_distributions beyond which no run of distributeSHU fails
MaxRows == 4

UserIds == {1, 2}

\* the member who applies for loans and the administrator who decides them
Member == 1

Admin == 2

\* an id that resolves to no row
NoSuchId == 999

LoanAmounts == {R(30000, 1)}

Terms == {1, 2}

\* interest_rate of ApproveLoanInput, in percent; NoRate: the field is absent
NoRate == R(0, 1)

Rates == {NoRate, R(24, 1)}

\* amount of ProcessPaymentInput, in cents
PayAmounts == {R(2, 5), R(80001, 2), R(90000, 1)}

-----------------------------------------------------------------------------
(* Enumerations of db/schema.ts *)

LoanStatuses ==
    {"PENDING", "APPROVED", "REJECTED", "ACTIVE", "COMPLETED", "OVERDUE"}

PaymentStatuses == {"PENDING", "PAID", "LATE", "MISSED"}

UserStatuses == {"ACTIVE", "INACTIVE", "PENDING_VERIFICATION", "SUSPENDED"}

-----------------------------------------------------------------------------
(* The outcome of the latest call *)

Outcome(op, id, err) ==
    [op |-> op, id |-> id, err |-> err, approved |-> FALSE, amount |-> Zero,
     by |-> Null]

-----------------------------------------------------------------------------
(* The calls in progress *)

\* the clients of the server that may have a call in progress
Clients == {1, 2}

\* a call at position pc, with its arguments, what it has read or computed,
\* and the error it ended with
Call(pc, op, args, local, err) ==
    [pc |-> pc, op |-> op, args |-> args, local |-> local, err |-> err]

Idle == Call("idle", "", <<>>, <<>>, "")

-----------------------------------------------------------------------------
(* createLoan *)

DefaultInterestRate == R(12, 1)

\* interestRate / 100 / 12
MonthlyRate(rate) == RDiv(RDiv(rate, RInt(100)), RInt(12))

\* CreateLoanPayment without interest
CreateLoanPaymentFlat(principal, numPayments) ==
    RDiv(principal, RInt(numPayments))

\* principal * (numerator / denominator) of createLoan
CreateLoanPayment(principal, numPayments) ==
    LET r == MonthlyRate(DefaultInterestRate)
        denominator == RSub(RPow(RAdd(One, r), numPayments), One)
        numerator == RMul(r, RPow(RAdd(One, r), numPayments))
    IN  IF r = Zero
        THEN RDiv(principal, RInt(numPayments))
        ELSE RMul(principal, RDiv(numerator, denominator))

createLoan(user_id, amount, term_months) ==
    /\ Len(loans) < MaxLoans
    /\ IF user_id \notin DOMAIN users
       THEN /\ last' = Outcome("createLoan", Null, "User not found")
            /\ UNCHANGED loans
       ELSE /\ loans' = Append(loans,
                [user_id |-> user_id,
                 amount |-> ToNumeric(amount),
                 interest_rate |-> ToNumeric(RMul(DefaultInterestRate, RInt(100))),
                 term_months |-> term_months,
                 monthly_payment |-> ToNumeric(CreateLoanPayment(amount, term_months)),
                 remaining_balance |-> ToNumeric(amount),
                 status |-> "PENDING",
                 applied_at |-> now,
                 approved_at |-> Null,
                 approved_by |-> Null])
            /\ last' = [Outcome("createLoan", Len(loans) + 1, "")
                           EXCEPT !.amount = amount]
    /\ UNCHANGED <<transactions, now, users, savings, schedules, shuCalculations,
                   shuDistributions>>

-----------------------------------------------------------------------------
(* calculateLoanSimulation: its numbers are never stored, so they are in   *)
(* the unit of the amount and are not rounded                              *)

\* sum of a sequence of numbers: reduce((sum, x) => sum + x, 0)
RECURSIVE RSum(_)
RSum(xs) == IF xs = <<>> THEN Zero ELSE RAdd(Head(xs), RSum(Tail(xs)))

\* monthlyPayment of the simulation
SimulationPayment(amount, monthlyRate, termMonths) ==
    IF monthlyRate = Zero
    THEN RDiv(amount, RInt(termMonths))
    ELSE LET factor == RPow(RAdd(One, monthlyRate), termMonths)
         IN  RDiv(RMul(amount, RMul(monthlyRate, factor)), RSub(factor, One))

\* SimulationRows reducing the balance by the whole payment
RECURSIVE SimulationRowsByTotal(_, _, _, _, _)
SimulationRowsByTotal(month, remainingBalance, termMonths, monthlyPayment, monthlyRate) ==
    IF month > termMonths THEN <<>>
    ELSE
      LET interestPayment == RMul(remainingBalance, monthlyRate)
          principalPayment == RSub(monthlyPayment, interestPayment)
      IN  IF month = termMonths
          THEN <<[month |-> month,
                  principal |-> remainingBalance,
                  interest |-> interestPayment,
                  total |-> RAdd(remainingBalance, interestPayment),
                  remaining_balance |-> Zero]>>
          ELSE <<[month |-> month,
                  principal |-> principalPayment,
                  interest |-> interestPayment,
                  total |-> monthlyPayment,
                  remaining_balance |->
                      RSub(remainingBalance, monthlyPayment)]>>
               \o SimulationRowsByTotal(month + 1,
                       RSub(remainingBalance, monthlyPayment), termMonths,
                       monthlyPayment, monthlyRate)

\* the loop generating the payment schedule, from the given month on
RECURSIVE SimulationRows(_, _, _, _, _)
SimulationRows(month, remainingBalance, termMonths, monthlyPayment, monthlyRate) ==
    IF month > termMonths THEN <<>>
    ELSE
      LET interestPayment == RMul(remainingBalance, monthlyRate)
          principalPayment == RSub(monthlyPayment, interestPayment)
      IN  IF month = termMonths
          THEN <<[month |-> month,
                  principal |-> remainingBalance,
                  interest |-> interestPayment,
                  total |-> RAdd(remainingBalance, interestPayment),
                  remaining_balance |-> Zero]>>
          ELSE <<[month |-> month,
                  principal |-> principalPayment,
                  interest |-> interestPayment,
                  total |-> monthlyPayment,
                  remaining_balance |->
                      RSub(remainingBalance, principalPayment)]>>
               \o SimulationRows(month + 1,
                       RSub(remainingBalance, principalPayment), termMonths,
                       monthlyPayment, monthlyRate)

\* the LoanSimulation returned
Simulation(amount, interestRate, termMonths) ==
    LET monthlyRate == MonthlyRate(interestRate)
        monthlyPayment == SimulationPayment(amount, monthlyRate, termMonths)
        paymentSchedule ==
            SimulationRows(1, amount, termMonths, monthlyPayment, monthlyRate)
        totalPayment ==
            RSum([i \in DOMAIN paymentSchedule |-> paymentSchedule[i].total])
    IN  [monthly_payment |-> monthlyPayment,
         total_payment |-> totalPayment,
         total_interest |-> RSub(totalPayment, amount),
         payment_schedule |-> paymentSchedule]

calculateLoanSimulation(c, amount, interestRate, termMonths) ==
    /\ calls[c].pc \in {"idle", "done"}
    /\ calls' = [calls EXCEPT ![c] =
           Call("done", "calculateLoanSimulation",
                <<amount, interestRate, termMonths>>,
                Simulation(amount, interestRate, termMonths), "")]
    /\ last' = [Outcome("calculateLoanSimulation", Null, "")
                   EXCEPT !.amount = amount]
    /\ UNCHANGED <<transactions, now, users, savings, loans, schedules,
                   shuCalculations, shuDistributions>>

-----------------------------------------------------------------------------
(* approveLoan *)

\* input.interest_rate || 12.0
ResolveRate(interest_rate) ==
    IF interest_rate = NoRate THEN R(12, 1) ELSE interest_rate

\* MonthlyPayment with the interest of a month on the whole amount
MonthlyPaymentFlat(loanAmount, r, termMonths) ==
    RAdd(RDiv(loanAmount, RInt(termMonths)), RMul(loanAmount, r))

\* loanAmount * (r * (1 + r)^n) / ((1 + r)^n - 1)
MonthlyPayment(loanAmount, r, termMonths) ==
    RDiv(RMul(loanAmount, RMul(r, RPow(RAdd(One, r), termMonths))),
         RSub(RPow(RAdd(One, r), termMonths), One))

\* GenSchedules with the loop bound i < termMonths
RECURSIVE GenSchedulesShort(_, _, _, _, _, _, _)
GenSchedulesShort(i, remainingPrincipal, loan_id, termMonths, monthlyPayment, monthlyInterestRate, currentDate) ==
    IF i >= termMonths THEN <<>>
    ELSE
      LET interestAmount == RMul(remainingPrincipal, monthlyInterestRate)
          principalAmount == RSub(monthlyPayment, interestAmount)
      IN  <<[loan_id |-> loan_id,
             installment_number |-> i,
             due_date |-> AddMonths(currentDate, i),
             principal_amount |-> ToNumeric(principalAmount),
             interest_amount |-> ToNumeric(interestAmount),
             total_amount |-> ToNumeric(monthlyPayment),
             paid_amount |-> 0,
             paid_date |-> Null,
             status |-> "PENDING",
             late_fee |-> 0]>>
          \o GenSchedulesShort(i + 1, RSub(remainingPrincipal, principalAmount),
                               loan_id, termMonths, monthlyPayment,
                               monthlyInterestRate, currentDate)

\* the loop building the payment schedule, from installment i on
RECURSIVE GenSchedules(_, _, _, _, _, _, _)
GenSchedules(i, remainingPrincipal, loan_id, termMonths, monthlyPayment, monthlyInterestRate, currentDate) ==
    IF i > termMonths THEN <<>>
    ELSE
      LET dueDate == AddMonths(currentDate, i)
          interestAmount == RMul(remainingPrincipal, monthlyInterestRate)
          principalAmount == RSub(monthlyPayment, interestAmount)
          remaining == RSub(remainingPrincipal, principalAmount)
          adjustedPrincipalAmount ==
              IF i = termMonths THEN RAdd(principalAmount, remaining)
              ELSE principalAmount
          adjustedTotalAmount ==
              IF i = termMonths
              THEN RAdd(adjustedPrincipalAmount, interestAmount)
              ELSE monthlyPayment
      IN  <<[loan_id |-> loan_id,
             installment_number |-> i,
             due_date |-> dueDate,
             principal_amount |-> ToNumeric(adjustedPrincipalAmount),
             interest_amount |-> ToNumeric(interestAmount),
             total_amount |-> ToNumeric(adjustedTotalAmount),
             paid_amount |-> 0,
             paid_date |-> Null,
             status |-> "PENDING",
             late_fee |-> 0]>>
          \o GenSchedules(i + 1, remaining, loan_id, termMonths,
                          monthlyPayment, monthlyInterestRate, currentDate)

\* IsPendingApproval refusing only the loans already approved
IsNotApproved(existingLoan) == existingLoan.status # "APPROVED"

\* existingLoan.status !== 'PENDING' raises 'Loan is not pending approval'
IsPendingApproval(existingLoan) == existingLoan.status = "PENDING"

\* RejectedLoan without the approver
RejectedLoanNoApprover(existingLoan, approvedBy, today) ==
    [existingLoan EXCEPT !.status = "REJECTED", !.approved_at = today]

\* the row written by the rejecting update
RejectedLoan(existingLoan, approvedBy, today) ==
    [existingLoan EXCEPT !.status = "REJECTED",
                         !.approved_at = today,
                         !.approved_by = approvedBy]

\* ApprovedLoan with the status of a loan that is being repaid
ApprovedLoanActive(existingLoan, interestRate, monthlyPayment, approvedBy, today) ==
    [existingLoan EXCEPT !.status = "ACTIVE",
                         !.interest_rate =
                             ToNumeric(RMul(interestRate, RInt(100))),
                         !.monthly_payment = ToNumeric(monthlyPayment),
                         !.remaining_balance = existingLoan.amount,
                         !.approved_at = today,
                         !.approved_by = approvedBy]

\* the row written by the approving update
ApprovedLoan(existingLoan, interestRate, monthlyPayment, approvedBy, today) ==
    [existingLoan EXCEPT !.status = "APPROVED",
                         !.interest_rate =
                             ToNumeric(RMul(interestRate, RInt(100))),
                         !.monthly_payment = ToNumeric(monthlyPayment),
                         !.remaining_balance = existingLoan.amount,
                         !.approved_at = today,
                         !.approved_by = approvedBy]

approveLoan(loan_id, approved, interest_rate, approvedBy) ==
    LET out(err) == [Outcome("approveLoan", loan_id, err)
                        EXCEPT !.approved = approved,
                               !.by = IF err = "" THEN approvedBy ELSE Null]
    IN
    /\ IF loan_id \notin DOMAIN loans
       THEN /\ last' = out("Loan not found")
            /\ UNCHANGED <<loans, schedules>>
       ELSE IF ~IsPendingApproval(loans[loan_id])
       THEN /\ last' = out("Loan is not pending approval")
            /\ UNCHANGED <<loans, schedules>>
       ELSE IF approvedBy \notin DOMAIN users
       THEN \* loans.approved_by references users.id: the update is refused
            /\ last' = out("foreign key violation")
            /\ UNCHANGED <<loans, schedules>>
       ELSE IF approved
       THEN LET existingLoan == loans[loan_id]
                interestRate == ResolveRate(interest_rate)
                monthlyInterestRate == MonthlyRate(interestRate)
                loanAmount == ParseFloat(existingLoan.amount)
                termMonths == existingLoan.term_months
                monthlyPayment ==
                    MonthlyPayment(loanAmount, monthlyInterestRate, termMonths)
            IN  /\ loans' = [loans EXCEPT ![loan_id] =
                       ApprovedLoan(existingLoan, interestRate, monthlyPayment,
                                    approvedBy, now)]
                /\ schedules' = schedules \o
                       GenSchedules(1, loanAmount, loan_id, termMonths,
                                    monthlyPayment, monthlyInterestRate, now)
                /\ last' = out("")
       ELSE /\ loans' = [loans EXCEPT ![loan_id] =
                   RejectedLoan(loans[loan_id], approvedBy, now)]
            /\ UNCHANGED schedules
            /\ last' = out("")
    /\ UNCHANGED <<transactions, now, users, savings, shuCalculations,
                   shuDistributions>>

\* a run of approveLoan(approved = true) in which the store refuses the insert
\* of the payment schedule: the update of the loan, a statement of its own, has
\* been committed; the error is logged and thrown again
approveLoanInsertFails(loan_id, interest_rate, approvedBy) ==
    /\ loan_id \in DOMAIN loans
    /\ IsPendingApproval(loans[loan_id])
    /\ approvedBy \in DOMAIN users
    /\ LET existingLoan == loans[loan_id]
           interestRate == ResolveRate(interest_rate)
           monthlyPayment ==
               MonthlyPayment(ParseFloat(existingLoan.amount),
                              MonthlyRate(interestRate),
                              existingLoan.term_months)
       IN  loans' = [loans EXCEPT ![loan_id] =
                ApprovedLoan(existingLoan, interestRate, monthlyPayment,
                             approvedBy, now)]
    /\ last' = [Outcome("approveLoan", loan_id, "insert failed")
                   EXCEPT !.approved = TRUE]
    /\ UNCHANGED <<transactions, now, users, savings, schedules, shuCalculations,
                   shuDistributions>>

\* approveLoan up to its second await: the select of the loan and the checks
approveLoanSelect(c, loan_id, approved, interest_rate, approvedBy) ==
    LET args == <<loan_id, approved, interest_rate, approvedBy>>
        fail(err) ==
            /\ calls' = [calls EXCEPT ![c] =
                   Call("done", "approveLoan", args, <<>>, err)]
            /\ last' = [Outcome("approveLoan", loan_id, err)
                           EXCEPT !.approved = approved]
    IN
    /\ calls[c].pc = "idle"
    /\ IF loan_id \notin DOMAIN loans
       THEN fail("Loan not found")
       ELSE IF ~IsPendingApproval(loans[loan_id])
       THEN fail("Loan is not pending approval")
       ELSE /\ calls' = [calls EXCEPT ![c] =
                   Call("update", "approveLoan", args,
                        [existingLoan |-> loans[loan_id]], "")]
            /\ UNCHANGED last
    /\ UNCHANGED <<transactions, now, users, savings, loans, schedules,
                   shuCalculations, shuDistributions>>

\* approveLoan from its second await: the update of the loan, which sets the
\* columns of set() in the row as it is now, found by its id alone
approveLoanUpdate(c) ==
    /\ calls[c].pc = "update"
    /\ calls[c].op = "approveLoan"
    /\ LET loan_id == calls[c].args[1]
           approved == calls[c].args[2]
           approvedBy == calls[c].args[4]
           existingLoan == calls[c].local.existingLoan
           interestRate == ResolveRate(calls[c].args[3])
           monthlyPayment ==
               MonthlyPayment(ParseFloat(existingLoan.amount),
                              MonthlyRate(interestRate),
                              existingLoan.term_months)
       IN  IF approvedBy \notin DOMAIN users
           THEN \* loans.approved_by references users.id
                /\ calls' = [calls EXCEPT ![c].pc = "done",
                                          ![c].err = "foreign key violation"]
                /\ last' = [Outcome("approveLoan", loan_id,
                                    "foreign key violation")
                               EXCEPT !.approved = approved]
                /\ UNCHANGED loans
           ELSE IF approved
           THEN /\ loans' = [loans EXCEPT ![loan_id] =
                       [ApprovedLoan(@, interestRate, monthlyPayment,
                                     approvedBy, now)
                           EXCEPT !.remaining_balance = existingLoan.amount]]
                /\ calls' = [calls EXCEPT ![c].pc = "insert"]
                /\ UNCHANGED last
           ELSE /\ loans' = [loans EXCEPT ![loan_id] =
                       RejectedLoan(@, approvedBy, now)]
                /\ calls' = [calls EXCEPT ![c].pc = "done"]
                /\ last' = [Outcome("approveLoan", loan_id, "")
                               EXCEPT !.approved = FALSE, !.by = approvedBy]
    /\ UNCHANGED <<transactions, now, users, savings, schedules,
                   shuCalculations, shuDistributions>>

\* approveLoan from its third await: the insert of the payment schedule built
\* from the loan as it was read
approveLoanInsert(c) ==
    /\ calls[c].pc = "insert"
    /\ calls[c].op = "approveLoan"
    /\ LET loan_id == calls[c].args[1]
           existingLoan == calls[c].local.existingLoan
           monthlyInterestRate == MonthlyRate(ResolveRate(calls[c].args[3]))
           loanAmount == ParseFloat(existingLoan.amount)
           termMonths == existingLoan.term_months
           monthlyPayment ==
               MonthlyPayment(loanAmount, monthlyInterestRate, termMonths)
       IN  /\ schedules' = schedules \o
                  GenSchedules(1, loanAmount, loan_id, termMonths,
                               monthlyPayment, monthlyInterestRate, now)
           /\ last' = [Outcome("approveLoan", loan_id, "")
                          EXCEPT !.approved = TRUE, !.by = calls[c].args[4]]
    /\ calls' = [calls EXCEPT ![c].pc = "done"]
    /\ UNCHANGED <<transactions, now, users, savings, loans, shuCalculations,
                   shuDistributions>>

-----------------------------------------------------------------------------
(* processPayment *)

\* 1000 * 60 * 60 * 24 * 30 milliseconds, in days
LateFeePeriod == 30

\* the 0.01 of the late fee: 1% of the total amount per period overdue
LateFeeRate == R(1, 100)

\* NewLateFee computed again by every overdue payment
NewLateFeeRecomputed(schedule, today) ==
    IF today > schedule.due_date
    THEN RMul(RMul(ParseFloat(schedule.total_amount), LateFeeRate),
              RInt(RCeil(R(today - schedule.due_date, LateFeePeriod))))
    ELSE ParseFloat(schedule.late_fee)

\* NewLateFee with Math.floor for Math.ceil
NewLateFeeFloor(schedule, today) ==
    IF today > schedule.due_date /\ schedule.status = "PENDING"
       /\ schedule.late_fee = 0
    THEN RMul(RMul(ParseFloat(schedule.total_amount), LateFeeRate),
              RInt((today - schedule.due_date) \div LateFeePeriod))
    ELSE ParseFloat(schedule.late_fee)

\* late fee written back by a payment made at time today
NewLateFee(schedule, today) ==
    LET lateFee == ParseFloat(schedule.late_fee)
        totalAmount == ParseFloat(schedule.total_amount)
        dueDate == schedule.due_date
        monthsOverdue == RCeil(R(today - dueDate, LateFeePeriod))
    IN  IF today > dueDate /\ schedule.status = "PENDING" /\ lateFee = Zero
        THEN RMul(RMul(totalAmount, LateFeeRate), RInt(monthsOverdue))
        ELSE lateFee

\* NewStatus with the late fee added to the threshold
NewStatusWithLateFee(schedule, newPaidAmount, today) ==
    IF RGeq(newPaidAmount,
            RAdd(ParseFloat(schedule.total_amount), NewLateFee(schedule, today)))
    THEN "PAID"
    ELSE IF today > schedule.due_date THEN "LATE"
    ELSE "PENDING"

\* status written back by a payment that brings the paid amount to newPaidAmount
NewStatus(schedule, newPaidAmount, today) ==
    IF RGeq(newPaidAmount, ParseFloat(schedule.total_amount)) THEN "PAID"
    ELSE IF today > schedule.due_date THEN "LATE"
    ELSE "PENDING"

\* FullyPaid with > for >=
OverPaid(schedule) ==
    RLess(ParseFloat(schedule.total_amount), ParseFloat(schedule.paid_amount))

\* currentPaidAmount >= totalAmount raises 'already fully paid'
FullyPaid(schedule) ==
    RGeq(ParseFloat(schedule.paid_amount), ParseFloat(schedule.total_amount))

\* NewPaidAmount clamped to the total amount
NewPaidAmountClamped(schedule, amount) ==
    LET sum == RAdd(ParseFloat(schedule.paid_amount), amount)
    IN  IF RLess(ParseFloat(schedule.total_amount), sum)
        THEN ParseFloat(schedule.total_amount) ELSE sum

\* currentPaidAmount + input.amount
NewPaidAmount(schedule, amount) ==
    RAdd(ParseFloat(schedule.paid_amount), amount)

\* PaymentUpdate taking what is paid off the principal of the installment
PaymentUpdateOffPrincipal(row, schedule, amount, today) ==
    LET totalAmount == ParseFloat(schedule.total_amount)
        newPaidAmount == NewPaidAmount(schedule, amount)
        paidDate == IF RGeq(newPaidAmount, totalAmount) THEN today ELSE Null
    IN  [row EXCEPT !.paid_amount = ToNumeric(newPaidAmount),
                    !.paid_date = paidDate,
                    !.status = NewStatus(schedule, newPaidAmount, today),
                    !.late_fee = ToNumeric(NewLateFee(schedule, today)),
                    !.principal_amount = @ - ToNumeric(amount)]

\* the update of the row by a call that has read schedule at time today: the
\* four columns of set(), computed from what was read
PaymentUpdate(row, schedule, amount, today) ==
    LET totalAmount == ParseFloat(schedule.total_amount)
        newPaidAmount == NewPaidAmount(schedule, amount)
        paidDate == IF RGeq(newPaidAmount, totalAmount) THEN today ELSE Null
    IN  [row EXCEPT !.paid_amount = ToNumeric(newPaidAmount),
                    !.paid_date = paidDate,
                    !.status = NewStatus(schedule, newPaidAmount, today),
                    !.late_fee = ToNumeric(NewLateFee(schedule, today))]

processPayment(schedule_id, amount) ==
    LET out(err) == [Outcome("processPayment", schedule_id, err)
                        EXCEPT !.amount = amount]
    IN
    /\ IF schedule_id \notin DOMAIN schedules
       THEN /\ last' = out("Payment schedule not found")
            /\ UNCHANGED schedules
       ELSE LET schedule == schedules[schedule_id]
            IN  IF FullyPaid(schedule)
                THEN /\ last' = out("Payment schedule is already fully paid")
                     /\ UNCHANGED schedules
                ELSE /\ schedules' = [schedules EXCEPT ![schedule_id] =
                            PaymentUpdate(@, schedule, amount, now)]
                     /\ last' = out("")
    /\ UNCHANGED <<transactions, now, users, savings, loans, shuCalculations,
                   shuDistributions>>

\* processPayment up to its second await: the select of the row, the checks
\* and the computation of the new columns from the row read
processPaymentSelect(c, schedule_id, amount) ==
    /\ calls[c].pc = "idle"
    /\ IF schedule_id \notin DOMAIN schedules
       THEN /\ calls' = [calls EXCEPT ![c] =
                   Call("done", "processPayment", <<schedule_id, amount>>,
                        <<>>, "Payment schedule not found")]
            /\ last' = [Outcome("processPayment", schedule_id,
                                "Payment schedule not found")
                           EXCEPT !.amount = amount]
       ELSE IF FullyPaid(schedules[schedule_id])
       THEN /\ calls' = [calls EXCEPT ![c] =
                   Call("done", "processPayment", <<schedule_id, amount>>,
                        <<>>, "Payment schedule is already fully paid")]
            /\ last' = [Outcome("processPayment", schedule_id,
                                "Payment schedule is already fully paid")
                           EXCEPT !.amount = amount]
       ELSE /\ calls' = [calls EXCEPT ![c] =
                   Call("update", "processPayment", <<schedule_id, amount>>,
                        [schedule |-> schedules[schedule_id], today |-> now],
                        "")]
            /\ UNCHANGED last
    /\ UNCHANGED <<transactions, now, users, savings, loans, schedules,
                   shuCalculations, shuDistributions>>

\* processPayment from its second await: the update of the row
processPaymentUpdate(c) ==
    /\ calls[c].pc = "update"
    /\ calls[c].op = "processPayment"
    /\ LET schedule_id == calls[c].args[1]
           amount == calls[c].args[2]
       IN  /\ schedules' = [schedules EXCEPT ![schedule_id] =
                  PaymentUpdate(@, calls[c].local.schedule, amount,
                                calls[c].local.today)]
           /\ last' = [Outcome("processPayment", schedule_id, "")
                          EXCEPT !.amount = amount]
    /\ calls' = [calls EXCEPT ![c].pc = "done"]
    /\ UNCHANGED <<transactions, now, users, savings, loans, shuCalculations,
                   shuDistributions>>

-----------------------------------------------------------------------------
(* The clock *)

Tick(days) ==
    /\ now + days <= Today + Horizon
    /\ now' = now + days
    /\ last' = Outcome("tick", Null, "")
    /\ UNCHANGED <<transactions, users, savings, loans, schedules,
                   shuCalculations, shuDistributions>>

-----------------------------------------------------------------------------
(* Loan lifecycle: the store holds the users only; then any sequence of    *)
(* createLoan, approveLoan and processPayment calls                        *)

Init ==
    /\ now = Today
    /\ users = [u \in UserIds |-> "ACTIVE"]
    /\ savings = <<>>
    /\ loans = <<>>
    /\ schedules = <<>>
    /\ transactions = <<>>
    /\ shuCalculations = <<>>
    /\ shuDistributions = <<>>
    /\ last = Outcome("init", Null, "")
    /\ calls = [c \in Clients |-> Idle]

CreateLoanStep ==
    /\ UNCHANGED calls
    /\ \E u \in {Member, NoSuchId}, a \in LoanAmounts, t \in Terms :
        createLoan(u, a, t)

ApproveLoanStep ==
    /\ UNCHANGED calls
    /\ \E id \in 1..MaxLoans \cup {NoSuchId}, approved \in BOOLEAN,
       rate \in Rates, by \in {Admin, NoSuchId} :
        approveLoan(id, approved, rate, by)

ProcessPaymentStep ==
    /\ UNCHANGED calls
    /\ \E id \in DOMAIN schedules \cup {NoSuchId}, a \in PayAmounts :
        processPayment(id, a)

TickStep ==
    /\ UNCHANGED calls
    /\ \E days \in TickSteps : Tick(days)

Next ==
    \/ CreateLoanStep
    \/ ApproveLoanStep
    \/ ProcessPaymentStep
    \/ TickStep

Spec == Init /\ [][Next]_vars

-----------------------------------------------------------------------------
(* Loan simulations: any sequence of calculateLoanSimulation calls *)

\* amount, in the unit of the currency
SimulationAmounts ==
    {R(100, 1), R(300, 1), R(1000, 1), R(2500, 1), R(10000, 1), R(125, 2)}

\* interestRate, in percent a year
SimulationRates == {R(0, 1), R(12, 1), R(24, 1), R(36, 1), R(48, 1), R(60, 1)}

SimulationTerms == {1, 2, 3}

\* a simulation reads and writes nothing that is shared: the calls of one
\* client show every result
SimulationClients == {1}

CalculateLoanSimulationStep ==
    \E c \in SimulationClients, amount \in SimulationAmounts,
       interestRate \in SimulationRates, termMonths \in SimulationTerms :
        calculateLoanSimulation(c, amount, interestRate, termMonths)

NextSimulation == CalculateLoanSimulationStep

SpecSimulation == Init /\ [][NextSimulation]_vars

-----------------------------------------------------------------------------
(* Loan lifecycle with a store that may refuse a statement *)

ApproveLoanInsertFailsStep ==
    /\ UNCHANGED calls
    /\ \E id \in 1..MaxLoans, rate \in Rates :
        approveLoanInsertFails(id, rate, Admin)

NextFaults ==
    \/ CreateLoanStep
    \/ ApproveLoanStep
    \/ ApproveLoanInsertFailsStep
    \/ ProcessPaymentStep

SpecFaults == Init /\ [][NextFaults]_vars

-----------------------------------------------------------------------------
(* Loan lifecycle with terms of three months *)

LongTerms == {3}

CreateLongLoanStep ==
    /\ UNCHANGED calls
    /\ \E a \in LoanAmounts, t \in LongTerms : createLoan(Member, a, t)

NextLongTerms ==
    \/ CreateLoanStep
    \/ CreateLongLoanStep
    \/ ApproveLoanStep
    \/ TickStep

SpecLongTerms == Init /\ [][NextLongTerms]_vars

-----------------------------------------------------------------------------
(* Approvals by two clients at a time: the loans are created by whole       *)
(* calls; each client makes one call of approveLoan, and the statements of  *)
(* the two calls are interleaved in any order                               *)

ApproveLoanSelectStep ==
    \E c \in Clients, id \in 1..MaxLoans \cup {NoSuchId},
       approved \in BOOLEAN, rate \in Rates, by \in {Admin, NoSuchId} :
        approveLoanSelect(c, id, approved, rate, by)

ApproveLoanUpdateStep == \E c \in Clients : approveLoanUpdate(c)

ApproveLoanInsertStep == \E c \in Clients : approveLoanInsert(c)

NextConcurrentApprovals ==
    \/ CreateLoanStep
    \/ ApproveLoanSelectStep
    \/ ApproveLoanUpdateStep
    \/ ApproveLoanInsertStep

SpecConcurrentApprovals == Init /\ [][NextConcurrentApprovals]_vars

-----------------------------------------------------------------------------
(* Payments: the store as the fixtures of the handlers' tests leave it     *)
(* (one loan that is past the decision, owning one installment); then any  *)
(* sequence of approveLoan and processPayment calls                        *)

\* the days a test may run: 15 March and 15 May of year 1 (two calendar months
\* back from them are 59 and 61 days)
FixtureDays == {Today, Today + 61}

\* createTestLoan(userId), in any status but PENDING
FixtureLoan(status, today) ==
    [user_id |-> 1, amount |-> 1000000, interest_rate |-> 1200,
     term_months |-> 12, monthly_payment |-> 90000,
     remaining_balance |-> 1000000, status |-> status,
     applied_at |-> today, approved_at |-> Null, approved_by |-> Null]

\* the total amounts of the installment: the 900.00 of
\* createTestPaymentSchedule, and the 888.49 approveLoan computes for a loan
\* of 10000.00 at 12% over 12 months
FixtureTotals == {90000, 88849}

\* createTestPaymentSchedule(loanId, overdue)
FixtureSchedule(overdue, total, today) ==
    [loan_id |-> 1, installment_number |-> 1,
     due_date |-> IF overdue THEN AddMonths(today, -2) ELSE AddMonths(today, 1),
     principal_amount |-> total - 10000, interest_amount |-> 10000,
     total_amount |-> total, paid_amount |-> 0, paid_date |-> Null,
     status |-> "PENDING", late_fee |-> 0]

InitFixture ==
    /\ now \in FixtureDays
    /\ users = [u \in UserIds |-> "ACTIVE"]
    /\ savings = <<>>
    /\ \E s \in LoanStatuses \ {"PENDING"} : loans = <<FixtureLoan(s, now)>>
    /\ \E overdue \in BOOLEAN, total \in FixtureTotals :
           schedules = <<FixtureSchedule(overdue, total, now)>>
    /\ transactions = <<>>
    /\ shuCalculations = <<>>
    /\ shuDistributions = <<>>
    /\ last = Outcome("init", Null, "")
    /\ calls = [c \in Clients |-> Idle]

NextFixture ==
    \/ ApproveLoanStep
    \/ ProcessPaymentStep
    \/ TickStep

SpecFixture == InitFixture /\ [][NextFixture]_vars

-----------------------------------------------------------------------------
(* Payments by two clients at a time: each client makes one call, and the  *)
(* statements of the two calls are interleaved in any order                *)

ProcessPaymentSelectStep ==
    \E c \in Clients, id \in DOMAIN schedules \cup {NoSuchId},
       a \in PayAmounts :
        processPaymentSelect(c, id, a)

ProcessPaymentUpdateStep == \E c \in Clients : processPaymentUpdate(c)

NextConcurrentPayments ==
    \/ ProcessPaymentSelectStep
    \/ ProcessPaymentUpdateStep

SpecConcurrentPayments == InitFixture /\ [][NextConcurrentPayments]_vars

-----------------------------------------------------------------------------
(* SHU: input domains. Year y of the model is calendar year y of the clock *)
(* (day 365 * y is its 1 January); the epoch is a year of four digits.     *)

ShuUsers == {1, 2, 3}

Years == {1, 2}

\* totalProfit of calculateSHU, in cents
TotalProfits == {R(100000, 1)}

-----------------------------------------------------------------------------
(* SQL aggregates *)

\* sum of f over the index set S
RECURSIVE SumOver(_, _)
SumOver(S, f) ==
    IF S = {} THEN 0
    ELSE LET x == CHOOSE x \in S : TRUE IN f[x] + SumOver(S \ {x}, f)

\* the rows of a sequence, in ascending order of the keys in S
RECURSIVE Ascending(_)
Ascending(S) ==
    IF S = {} THEN <<>>
    ELSE LET m == CHOOSE m \in S : \A x \in S : m <= x
         IN  <<m>> \o Ascending(S \ {m})

SavingsAmounts == [i \in DOMAIN savings |-> savings[i].amount]

LoanAmountsOf == [i \in DOMAIN loans |-> loans[i].amount]

\* select ... from users where status = 'ACTIVE'
ActiveUsers == {u \in DOMAIN users : users[u] = "ACTIVE"}

-----------------------------------------------------------------------------
(* calculateSHU *)

MemberSharePercentage == 40

\* new Date(year, 0, 1)
StartDate(year) == MakeDate(year, 0, 0)

\* new Date(year + 1, 0, 1)
EndDate(year) == MakeDate(year + 1, 0, 0)

\* gte(transaction_date, startDate), lte(transaction_date, endDate)
InWindow(t, year) == StartDate(year) <= t /\ t <= EndDate(year)

\* sum(savings.amount) of one user in the window of the year, in cents
YearSavings(u, year) ==
    SumOver({i \in DOMAIN savings :
                savings[i].user_id = u
                /\ InWindow(savings[i].transaction_date, year)},
            SavingsAmounts)

\* sum(loans.amount) of one user in the window of the year, in cents
YearLoans(u, year) ==
    SumOver({i \in DOMAIN loans :
                loans[i].user_id = u /\ InWindow(loans[i].applied_at, year)},
            LoanAmountsOf)

\* the users of the grouped query results
SavingsContributors(year) ==
    {savings[i].user_id : i \in {j \in DOMAIN savings :
                                   InWindow(savings[j].transaction_date, year)}}

LoanContributors(year) ==
    {loans[i].user_id : i \in {j \in DOMAIN loans :
                                 InWindow(loans[j].applied_at, year)}}

TotalSavingsAmount(year) ==
    SumOver(SavingsContributors(year),
            [u \in SavingsContributors(year) |-> YearSavings(u, year)])

TotalLoanAmount(year) ==
    SumOver(LoanContributors(year),
            [u \in LoanContributors(year) |-> YearLoans(u, year)])

\* TotalMemberShare with the whole profit for the members
TotalMemberShareWhole(totalProfit) == totalProfit

\* totalProfit * (memberSharePercentage / 100)
TotalMemberShare(totalProfit) ==
    RMul(totalProfit, RDiv(RInt(MemberSharePercentage), RInt(100)))

\* ProvisionalShare without the halving of the two ratios
ProvisionalShareUnsplit(u, year, totalMemberShare) ==
    LET savingsContribution ==
            RInt(IF u \in SavingsContributors(year)
                 THEN YearSavings(u, year) ELSE 0)
        loanContribution ==
            RInt(IF u \in LoanContributors(year)
                 THEN YearLoans(u, year) ELSE 0)
        savingsRatio ==
            IF TotalSavingsAmount(year) > 0
            THEN RDiv(savingsContribution, RInt(TotalSavingsAmount(year)))
            ELSE Zero
        loanRatio ==
            IF TotalLoanAmount(year) > 0
            THEN RDiv(loanContribution, RInt(TotalLoanAmount(year)))
            ELSE Zero
    IN  [savings_contribution |-> ToNumeric(savingsContribution),
         loan_contribution |-> ToNumeric(loanContribution),
         share_amount |->
             ToNumeric(RAdd(RMul(totalMemberShare, savingsRatio),
                            RMul(totalMemberShare, loanRatio)))]

\* the provisional share of one active user
ProvisionalShare(u, year, totalMemberShare) ==
    LET savingsContribution ==
            RInt(IF u \in SavingsContributors(year)
                 THEN YearSavings(u, year) ELSE 0)
        loanContribution ==
            RInt(IF u \in LoanContributors(year)
                 THEN YearLoans(u, year) ELSE 0)
        savingsRatio ==
            IF TotalSavingsAmount(year) > 0
            THEN RDiv(savingsContribution, RInt(TotalSavingsAmount(year)))
            ELSE Zero
        loanRatio ==
            IF TotalLoanAmount(year) > 0
            THEN RDiv(loanContribution, RInt(TotalLoanAmount(year)))
            ELSE Zero
    IN  [savings_contribution |-> ToNumeric(savingsContribution),
         loan_contribution |-> ToNumeric(loanContribution),
         share_amount |->
             ToNumeric(RAdd(RMul(RMul(totalMemberShare, R(1, 2)), savingsRatio),
                            RMul(RMul(totalMemberShare, R(1, 2)), loanRatio)))]

\* the rows calculateSHU inserts for the active users, in the order of the query
RECURSIVE ProvisionalRows(_, _, _, _)
ProvisionalRows(activeUsers, calcId, year, totalMemberShare) ==
    IF activeUsers = <<>> THEN <<>>
    ELSE LET user == Head(activeUsers)
             p == ProvisionalShare(user, year, totalMemberShare)
         IN  <<[shu_calculation_id |-> calcId,
                user_id |-> user,
                savings_contribution |-> p.savings_contribution,
                loan_contribution |-> p.loan_contribution,
                share_amount |-> p.share_amount,
                distributed_at |-> Null]>>
             \o ProvisionalRows(Tail(activeUsers), calcId, year,
                                totalMemberShare)

\* CalculationExists looking at the latest calculation only
LatestCalculationIs(year) ==
    /\ shuCalculations # <<>>
    /\ shuCalculations[Len(shuCalculations)].year = year

\* existingCalculation.length > 0
CalculationExists(year) ==
    \E i \in DOMAIN shuCalculations : shuCalculations[i].year = year

\* calculateSHU after the check of the year: the check of the calculator, the
\* queries and the inserts
calculateSHUInsert(year, totalProfit, calculatedBy) ==
    LET out(err) == [Outcome("calculateSHU", year, err)
                        EXCEPT !.amount = totalProfit]
    IN  IF calculatedBy \notin DOMAIN users
        THEN /\ last' = out("Calculator user not found")
             /\ UNCHANGED <<shuCalculations, shuDistributions>>
        ELSE LET totalMemberShare == TotalMemberShare(totalProfit)
                 calcId == Len(shuCalculations) + 1
             IN  /\ shuCalculations' = Append(shuCalculations,
                        [year |-> year,
                         total_profit |-> ToNumeric(totalProfit),
                         member_share_percentage |->
                             ToNumeric(RInt(MemberSharePercentage * 100)),
                         total_member_share |-> ToNumeric(totalMemberShare),
                         calculated_at |-> now,
                         calculated_by |-> calculatedBy,
                         distributed |-> FALSE])
                 /\ shuDistributions' = shuDistributions \o
                        ProvisionalRows(Ascending(ActiveUsers), calcId, year,
                                        totalMemberShare)
                 /\ last' = out("")

calculateSHU(year, totalProfit, calculatedBy) ==
    /\ IF CalculationExists(year)
       THEN /\ last' = [Outcome("calculateSHU", year,
                                "SHU calculation already exists")
                           EXCEPT !.amount = totalProfit]
            /\ UNCHANGED <<shuCalculations, shuDistributions>>
       ELSE calculateSHUInsert(year, totalProfit, calculatedBy)
    /\ UNCHANGED <<transactions, now, users, savings, loans, schedules>>

\* calculateSHU up to the await that follows the check of the year
calculateSHUCheck(c, year, totalProfit, calculatedBy) ==
    /\ calls[c].pc = "idle"
    /\ IF CalculationExists(year)
       THEN /\ calls' = [calls EXCEPT ![c] =
                   Call("done", "calculateSHU",
                        <<year, totalProfit, calculatedBy>>, <<>>,
                        "SHU calculation already exists")]
            /\ last' = [Outcome("calculateSHU", year,
                                "SHU calculation already exists")
                           EXCEPT !.amount = totalProfit]
       ELSE /\ calls' = [calls EXCEPT ![c] =
                   Call("insert", "calculateSHU",
                        <<year, totalProfit, calculatedBy>>, <<>>, "")]
            /\ UNCHANGED last
    /\ UNCHANGED <<transactions, now, users, savings, loans, schedules,
                   shuCalculations, shuDistributions>>

\* calculateSHU from there on
calculateSHURest(c) ==
    /\ calls[c].pc = "insert"
    /\ calls[c].op = "calculateSHU"
    /\ calculateSHUInsert(calls[c].args[1], calls[c].args[2], calls[c].args[3])
    /\ calls' = [calls EXCEPT ![c].pc = "done", ![c].err = last'.err]
    /\ UNCHANGED <<transactions, now, users, savings, loans, schedules>>

-----------------------------------------------------------------------------
(* distributeSHU *)

\* sum(savings.amount) of one user, over all time, in cents
LifetimeSavings(u) ==
    SumOver({i \in DOMAIN savings : savings[i].user_id = u}, SavingsAmounts)

\* sum(loans.amount) of the COMPLETED loans of one user, in cents
CompletedLoans(u) ==
    SumOver({i \in DOMAIN loans :
                loans[i].user_id = u /\ loans[i].status = "COMPLETED"},
            LoanAmountsOf)

\* totalSavingsContribution + totalLoanContribution over the active users
TotalContribution ==
    SumOver(ActiveUsers, [u \in ActiveUsers |-> LifetimeSavings(u)])
    + SumOver(ActiveUsers, [u \in ActiveUsers |-> CompletedLoans(u)])

\* ShareAmount without the loan contribution of the member
ShareAmountSavingsOnly(member, totalMemberShare) ==
    IF TotalContribution > 0
    THEN RMul(totalMemberShare,
              RDiv(RInt(LifetimeSavings(member)), RInt(TotalContribution)))
    ELSE RDiv(totalMemberShare, RInt(Cardinality(ActiveUsers)))

\* ShareAmount dividing equally whatever the contributions
ShareAmountEqual(member, totalMemberShare) ==
    RDiv(totalMemberShare, RInt(Cardinality(ActiveUsers)))

\* the share of one active member
ShareAmount(member, totalMemberShare) ==
    IF TotalContribution > 0
    THEN RMul(totalMemberShare,
              RDiv(RInt(LifetimeSavings(member) + CompletedLoans(member)),
                   RInt(TotalContribution)))
    ELSE RDiv(totalMemberShare, RInt(Cardinality(ActiveUsers)))

\* the rows distributeSHU inserts for the active members, in the order of the query
RECURSIVE DistributionRows(_, _, _, _)
DistributionRows(activeMembers, shuCalculationId, totalMemberShare, today) ==
    IF activeMembers = <<>> THEN <<>>
    ELSE LET member == Head(activeMembers)
         IN  <<[shu_calculation_id |-> shuCalculationId,
                user_id |-> member,
                savings_contribution |-> LifetimeSavings(member),
                loan_contribution |-> CompletedLoans(member),
                share_amount |->
                    ToNumeric(ShareAmount(member, totalMemberShare)),
                distributed_at |-> today]>>
             \o DistributionRows(Tail(activeMembers), shuCalculationId,
                                 totalMemberShare, today)

\* shuCalculation[0].distributed raises 'SHU has already been distributed'
AlreadyDistributed(calculation) == calculation.distributed

\* MarkDistributed without the update
MarkNothing(calculation) == calculation

\* set({ distributed: true })
MarkDistributed(calculation) == [calculation EXCEPT !.distributed = TRUE]

distributeSHU(shuCalculationId) ==
    LET out(err) == Outcome("distributeSHU", shuCalculationId, err)
    IN
    /\ IF shuCalculationId \notin DOMAIN shuCalculations
       THEN /\ last' = out("SHU calculation not found")
            /\ UNCHANGED <<shuCalculations, shuDistributions>>
       ELSE IF AlreadyDistributed(shuCalculations[shuCalculationId])
       THEN /\ last' = out("SHU has already been distributed")
            /\ UNCHANGED <<shuCalculations, shuDistributions>>
       ELSE IF ActiveUsers = {}
       THEN /\ last' = out("No active members found for distribution")
            /\ UNCHANGED <<shuCalculations, shuDistributions>>
       ELSE LET calculation == shuCalculations[shuCalculationId]
                totalMemberShare == ParseFloat(calculation.total_member_share)
            IN  /\ shuDistributions' = shuDistributions \o
                       DistributionRows(Ascending(ActiveUsers),
                                        shuCalculationId, totalMemberShare, now)
                /\ shuCalculations' =
                       [shuCalculations EXCEPT ![shuCalculationId] =
                            MarkDistributed(calculation)]
                /\ last' = out("")
    /\ UNCHANGED <<transactions, now, users, savings, loans, schedules>>

\* a run of distributeSHU in which the store refuses a statement after k rows
\* have been inserted (the insert of row k + 1, or the final update when every
\* row is in): each insert is a statement of its own and stays committed; the
\* error is logged and thrown again
distributeSHUFails(shuCalculationId, k) ==
    /\ shuCalculationId \in DOMAIN shuCalculations
    /\ ~AlreadyDistributed(shuCalculations[shuCalculationId])
    /\ ActiveUsers # {}
    /\ k \in 0..Cardinality(ActiveUsers)
    /\ Len(shuDistributions) + k <= MaxRows
    /\ LET calculation == shuCalculations[shuCalculationId]
           totalMemberShare == ParseFloat(calculation.total_member_share)
       IN  shuDistributions' = shuDistributions \o
               SubSeq(DistributionRows(Ascending(ActiveUsers), shuCalculationId,
                                       totalMemberShare, now), 1, k)
    /\ last' = Outcome("distributeSHU", shuCalculationId, "statement failed")
    /\ UNCHANGED <<transactions, now, users, savings, loans, schedules,
                   shuCalculations>>

\* distributeSHU up to its loop: the select of the calculation, the checks, the
\* select of the active members and the queries of the contributions
distributeSHURead(c, shuCalculationId) ==
    LET fail(err) ==
            /\ calls' = [calls EXCEPT ![c] =
                   Call("done", "distributeSHU", <<shuCalculationId>>, <<>>,
                        err)]
            /\ last' = Outcome("distributeSHU", shuCalculationId, err)
    IN
    /\ calls[c].pc = "idle"
    /\ IF shuCalculationId \notin DOMAIN shuCalculations
       THEN fail("SHU calculation not found")
       ELSE IF AlreadyDistributed(shuCalculations[shuCalculationId])
       THEN fail("SHU has already been distributed")
       ELSE IF ActiveUsers = {}
       THEN fail("No active members found for distribution")
       ELSE /\ calls' = [calls EXCEPT ![c] =
                   Call("insert", "distributeSHU", <<shuCalculationId>>,
                        [activeMembers |-> Ascending(ActiveUsers),
                         totalMemberShare |->
                             ParseFloat(shuCalculations[shuCalculationId]
                                            .total_member_share),
                         next |-> 1],
                        "")]
            /\ UNCHANGED last
    /\ UNCHANGED <<transactions, now, users, savings, loans, schedules,
                   shuCalculations, shuDistributions>>

\* LoopDone leaving the loop before the last member
LoopDoneEarly(local) == local.next >= Len(local.activeMembers)

\* for (const member of activeMembers) has no member left
LoopDone(local) == local.next > Len(local.activeMembers)

\* one turn of the loop: the insert of the row of the next member
distributeSHUInsertRow(c) ==
    /\ calls[c].pc = "insert"
    /\ calls[c].op = "distributeSHU"
    /\ ~LoopDone(calls[c].local)
    /\ LET local == calls[c].local
           rows == DistributionRows(local.activeMembers, calls[c].args[1],
                                    local.totalMemberShare, now)
       IN  shuDistributions' = Append(shuDistributions, rows[local.next])
    /\ calls' = [calls EXCEPT ![c].local.next = @ + 1]
    /\ UNCHANGED <<transactions, now, users, savings, loans, schedules,
                   shuCalculations, last>>

\* distributeSHU after its loop: the update that marks the calculation
distributeSHUMark(c) ==
    /\ calls[c].pc = "insert"
    /\ calls[c].op = "distributeSHU"
    /\ LoopDone(calls[c].local)
    /\ shuCalculations' = [shuCalculations EXCEPT ![calls[c].args[1]] =
                               MarkDistributed(@)]
    /\ calls' = [calls EXCEPT ![c].pc = "done"]
    /\ last' = Outcome("distributeSHU", calls[c].args[1], "")
    /\ UNCHANGED <<transactions, now, users, savings, loans, schedules,
                   shuDistributions>>

\* the store refuses the next statement of the call, an insert or the update:
\* the error is logged and thrown again, and what was inserted stays
distributeSHUStatementFails(c) ==
    /\ calls[c].pc = "insert"
    /\ calls[c].op = "distributeSHU"
    /\ calls' = [calls EXCEPT ![c].pc = "done",
                              ![c].err = "statement failed"]
    /\ last' = Outcome("distributeSHU", calls[c].args[1], "statement failed")
    /\ UNCHANGED <<transactions, now, users, savings, loans, schedules,
                   shuCalculations, shuDistributions>>

-----------------------------------------------------------------------------
(* SHU: the registry, the savings ledger and the loan registry are given   *)
(* (they are written by collaborators); then any sequence of calculateSHU  *)
(* and distributeSHU calls                                                 *)

\* 1 July of year 1
MidYear == 365 + 181

SavingsRow(u, amount, date) ==
    [user_id |-> u, amount |-> amount, transaction_date |-> date]

\* the deposits a member may have made: none, one in the middle of year 1,
\* one at the first instant of year 2
DepositChoices(u) ==
    {<<>>, <<SavingsRow(u, 10000, MidYear)>>,
     <<SavingsRow(u, 5000, StartDate(2))>>}

LoanRow(u, amount, status, date) ==
    [user_id |-> u, amount |-> amount, interest_rate |-> 1200,
     term_months |-> 12, monthly_payment |-> 0,
     remaining_balance |-> amount, status |-> status,
     applied_at |-> date, approved_at |-> Null, approved_by |-> Null]

LoanChoices ==
    {<<>>, <<LoanRow(1, 20000, "COMPLETED", MidYear)>>,
     <<LoanRow(2, 20000, "ACTIVE", MidYear)>>}

InitSHU ==
    /\ now = EndDate(2)
    /\ users \in [ShuUsers -> {"ACTIVE", "INACTIVE"}]
    /\ \E d1 \in DepositChoices(1), d2 \in DepositChoices(2) :
           savings = d1 \o d2
    /\ loans \in LoanChoices
    /\ schedules = <<>>
    /\ transactions = <<>>
    /\ shuCalculations = <<>>
    /\ shuDistributions = <<>>
    /\ last = Outcome("init", Null, "")
    /\ calls = [c \in Clients |-> Idle]

CalculateSHUStep ==
    /\ UNCHANGED calls
    /\ \E year \in Years, totalProfit \in TotalProfits,
       by \in {Admin, NoSuchId} :
        calculateSHU(year, totalProfit, by)

DistributeSHUStep ==
    /\ UNCHANGED calls
    /\ \E id \in 1..Cardinality(Years) \cup {NoSuchId} : distributeSHU(id)

NextSHU ==
    \/ CalculateSHUStep
    \/ DistributeSHUStep

SpecSHU == InitSHU /\ [][NextSHU]_vars

-----------------------------------------------------------------------------
(* SHU with a store that may refuse a statement *)

DistributeSHUFailsStep ==
    /\ UNCHANGED calls
    /\ \E id \in 1..Cardinality(Years), k \in 0..Cardinality(ShuUsers) :
        distributeSHUFails(id, k)

NextSHUFaults ==
    \/ CalculateSHUStep
    \/ DistributeSHUStep
    \/ DistributeSHUFailsStep

SpecSHUFaults == InitSHU /\ [][NextSHUFaults]_vars

-----------------------------------------------------------------------------
(* SHU calculations by two clients at a time: each client makes one call,  *)
(* and the steps of the two calls are interleaved in any order             *)

CalculateSHUCheckStep ==
    \E c \in Clients, year \in Years, totalProfit \in TotalProfits,
       by \in {Admin, NoSuchId} :
        calculateSHUCheck(c, year, totalProfit, by)

CalculateSHURestStep == \E c \in Clients : calculateSHURest(c)

NextConcurrentSHU ==
    \/ CalculateSHUCheckStep
    \/ CalculateSHURestStep

SpecConcurrentSHU == InitSHU /\ [][NextConcurrentSHU]_vars

-----------------------------------------------------------------------------
(* SHU calculations of any profit: no profit, a profit whose member share   *)
(* is a whole number of cents, and one whose member share is not            *)

\* totalProfit of calculateSHU, in cents: z.number()
AnyProfits == {R(0, 1), R(100000, 1), R(100003, 1)}

CalculateSHUAnyProfitStep ==
    /\ UNCHANGED calls
    /\ \E year \in Years, totalProfit \in AnyProfits,
       by \in {Admin, NoSuchId} :
        calculateSHU(year, totalProfit, by)

NextSHUProfits == CalculateSHUAnyProfitStep

SpecSHUProfits == InitSHU /\ [][NextSHUProfits]_vars

-----------------------------------------------------------------------------
(* SHU distributions statement by statement: the calculations are made by   *)
(* whole calls; each client makes one call of distributeSHU, the statements *)
(* of the two calls are interleaved in any order, and the store may refuse  *)
(* any statement of the loop and the update                                 *)

\* any members Active, one deposit in the savings ledger, no loan
InitDistributionSteps ==
    /\ now = EndDate(2)
    /\ users \in [ShuUsers -> {"ACTIVE", "INACTIVE"}]
    /\ savings = <<SavingsRow(1, 10000, MidYear)>>
    /\ loans = <<>>
    /\ schedules = <<>>
    /\ transactions = <<>>
    /\ shuCalculations = <<>>
    /\ shuDistributions = <<>>
    /\ last = Outcome("init", Null, "")
    /\ calls = [c \in Clients |-> Idle]

DistributeSHUReadStep ==
    \E c \in Clients, id \in 1..Cardinality(Years) \cup {NoSuchId} :
        distributeSHURead(c, id)

DistributeSHUInsertRowStep == \E c \in Clients : distributeSHUInsertRow(c)

DistributeSHUMarkStep == \E c \in Clients : distributeSHUMark(c)

DistributeSHUStatementFailsStep ==
    \E c \in Clients : distributeSHUStatementFails(c)

NextDistributionSteps ==
    \/ CalculateSHUStep
    \/ DistributeSHUReadStep
    \/ DistributeSHUInsertRowStep
    \/ DistributeSHUMarkStep
    \/ DistributeSHUStatementFailsStep

SpecDistributionSteps ==
    InitDistributionSteps /\ [][NextDistributionSteps]_vars

-----------------------------------------------------------------------------
(* Properties of approveLoan *)

\* the installments of a loan in a payment_schedules table
SchedulesOf(table, loan_id) ==
    {i \in DOMAIN table : table[i].loan_id = loan_id}

Approved == last.op = "approveLoan" /\ last.err = "" /\ last.approved

Rejected == last.op = "approveLoan" /\ last.err = "" /\ ~last.approved

\* C1: a successful approveLoan(approved = true) of a Pending loan leaves the
\* loan with exactly termMonths installments, numbered 1..termMonths without gap
\* or duplicate, each Pending with paid amount 0 and late fee 0
C1_ApprovalCreatesSchedule ==
    [][Approved' =>
        LET id == last'.id
            rows == SchedulesOf(schedules', id)
        IN  /\ loans[id].status = "PENDING"
            /\ loans'[id].status = "APPROVED"
            /\ Cardinality(rows) = loans[id].term_months
            /\ {schedules'[i].installment_number : i \in rows}
                   = 1..loans[id].term_months
            /\ \A i \in rows : /\ schedules'[i].status = "PENDING"
                               /\ schedules'[i].paid_amount = 0
                               /\ schedules'[i].late_fee = 0]_vars

C1_Witness ==
    /\ Approved
    /\ loans[last.id].term_months = 2
    /\ Cardinality(SchedulesOf(schedules, last.id)) = 2

\* C2: approveLoan(approved = false) of a Pending loan sets the status to
\* Rejected, records the approver and the time of the decision, and creates no
\* installment
C2_RejectionCreatesNothing ==
    [][Rejected' =>
        LET id == last'.id
        IN  /\ loans[id].status = "PENDING"
            /\ loans'[id].status = "REJECTED"
            /\ last'.by \in DOMAIN users
            /\ loans'[id].approved_by = last'.by
            /\ loans'[id].approved_at = now
            /\ schedules' = schedules
            /\ SchedulesOf(schedules', id) = {}]_vars

C2_Witness ==
    /\ Rejected
    /\ loans[last.id].status = "REJECTED"
    /\ loans[last.id].approved_by = Admin
    /\ SchedulesOf(schedules, last.id) = {}

\* C3: approveLoan of a loan that is not Pending fails with 'Loan is not
\* pending approval', whatever the approved flag, and changes neither the loans
\* nor the installments
C3_NonPendingRefused ==
    [][(/\ last'.op = "approveLoan"
        /\ last'.id \in DOMAIN loans
        /\ loans[last'.id].status # "PENDING")
       => /\ last'.err = "Loan is not pending approval"
          /\ loans' = loans
          /\ schedules' = schedules]_vars

C3_Witness ==
    /\ last.op = "approveLoan"
    /\ last.err = "Loan is not pending approval"
    /\ ~last.approved
    /\ loans[last.id].status = "COMPLETED"

-----------------------------------------------------------------------------
(* Properties of processPayment *)

Paid == last.op = "processPayment" /\ last.err = ""

\* ceil(a / b) for a > 0, b > 0
CeilDiv(a, b) == (a + b - 1) \div b

\* C4, as claimed: an accepted payment of amount a sets the paid amount to
\* exactly the old paid amount + a
C4_ExactSum ==
    [][Paid' =>
        RInt(schedules'[last'.id].paid_amount)
            = RAdd(RInt(schedules[last'.id].paid_amount), last'.amount)]_vars

\* C4, amended: an accepted payment of amount a sets the paid amount to the old
\* paid amount + a rounded to the cent, also beyond the total amount; when a is
\* a whole number of cents the new paid amount is exactly old + a
C4_RoundedSum ==
    [][Paid' =>
        LET old == schedules[last'.id]
            new == schedules'[last'.id]
        IN  /\ RLess(RInt(old.paid_amount), RInt(old.total_amount))
            /\ new.paid_amount
                   = ToNumeric(RAdd(RInt(old.paid_amount), last'.amount))
            /\ last'.amount.d = 1
                   => new.paid_amount = old.paid_amount + last'.amount.n]_vars

\* a partial payment of 400.005, stored as 400.01, then one of 900.00
C4_Witness ==
    /\ Paid
    /\ last.amount = R(90000, 1)
    /\ schedules[last.id].total_amount = 90000
    /\ schedules[last.id].paid_amount = 130001

\* C5: processPayment of an installment whose paid amount has reached the
\* total amount fails with 'already fully paid' and changes no installment
C5_FullyPaidRefused ==
    [][(/\ last'.op = "processPayment"
        /\ last'.id \in DOMAIN schedules
        /\ schedules[last'.id].paid_amount >= schedules[last'.id].total_amount)
       => /\ last'.err = "Payment schedule is already fully paid"
          /\ schedules' = schedules]_vars

C5_Witness ==
    /\ last.op = "processPayment"
    /\ last.err = "Payment schedule is already fully paid"
    /\ schedules[last.id].paid_amount = schedules[last.id].total_amount

\* C6: a late fee that is set (nonzero) is never changed again
C6_LateFeeSetOnce ==
    [][\A i \in DOMAIN schedules :
          schedules[i].late_fee # 0
              => schedules'[i].late_fee = schedules[i].late_fee]_vars

\* a second payment, a period after the one that set the fee for 2 periods
C6_Witness ==
    /\ Paid
    /\ now > Today
    /\ schedules[last.id].paid_amount = 80002
    /\ schedules[last.id].late_fee = 1800

\* C7: the status an accepted payment writes is Paid, with paid date now, when
\* old paid amount + amount >= total amount (the late fee not counted), else
\* Late when now is after the due date, else Pending
C7_StatusOfPayment ==
    [][Paid' =>
        LET old == schedules[last'.id]
            new == schedules'[last'.id]
            newPaid == RAdd(RInt(old.paid_amount), last'.amount)
        IN  IF RGeq(newPaid, RInt(old.total_amount))
            THEN new.status = "PAID" /\ new.paid_date = now
            ELSE IF now > old.due_date
            THEN new.status = "LATE" /\ new.paid_date = Null
            ELSE new.status = "PENDING" /\ new.paid_date = Null]_vars

\* an overdue installment paid exactly its total amount
C7_Witness ==
    /\ Paid
    /\ schedules[last.id].status = "PAID"
    /\ schedules[last.id].paid_date = now
    /\ schedules[last.id].paid_amount = schedules[last.id].total_amount
    /\ schedules[last.id].late_fee > 0

FeeDue(schedule) ==
    now > schedule.due_date /\ schedule.status = "PENDING"
    /\ schedule.late_fee = 0

\* total amount x 0.01 x ceil((now - due date) / 30 days), in cents
FeeClaimed(schedule) ==
    R(schedule.total_amount * CeilDiv(now - schedule.due_date, 30), 100)

C8_ExampleOnCalendar ==
    [][(Paid' /\ FeeDue(schedules[last'.id]))
       => LET old == schedules[last'.id]
              new == schedules'[last'.id]
          IN  (/\ old.total_amount = 90000
               /\ old.paid_amount = 0
               /\ last'.amount = R(90000, 1)
               /\ old.due_date = AddMonths(now, -2))
              => new.status = "PAID" /\ new.late_fee = 1800]_vars

-----------------------------------------------------------------------------
(* Properties of the SHU calls *)

\* distributeSHU has inserted rows for the calculation
HasBeenDistributed(id) ==
    \E i \in DOMAIN shuDistributions :
        /\ shuDistributions[i].shu_calculation_id = id
        /\ shuDistributions[i].distributed_at # Null

\* C9: once distributeSHU has succeeded for a calculation, every later
\* distributeSHU of it fails with 'SHU has already been distributed' and
\* inserts no row
C9_DistributedOnce ==
    [][(last'.op = "distributeSHU" /\ HasBeenDistributed(last'.id))
       => /\ last'.err = "SHU has already been distributed"
          /\ shuDistributions' = shuDistributions
          /\ shuCalculations' = shuCalculations]_vars

C9_Witness ==
    /\ last.op = "distributeSHU"
    /\ last.err = "SHU has already been distributed"
    /\ HasBeenDistributed(last.id)

\* C10: calculateSHU for a year that has a calculation fails with 'already
\* exists' and inserts neither a calculation nor a distribution row
C10_YearCalculatedOnce ==
    [][(/\ last'.op = "calculateSHU"
        /\ \E i \in DOMAIN shuCalculations :
               shuCalculations[i].year = last'.id)
       => /\ last'.err = "SHU calculation already exists"
          /\ shuCalculations' = shuCalculations
          /\ shuDistributions' = shuDistributions]_vars

\* refused although another year was calculated in between
C10_Witness ==
    /\ last.op = "calculateSHU"
    /\ last.err = "SHU calculation already exists"
    /\ Len(shuCalculations) = 2
    /\ shuCalculations[1].year = last.id

\* C13, as claimed: no state is observable in which a loan is Approved without
\* its term_months installments, also when the insert of the installments fails
C13_ApprovalAtomic ==
    \A id \in DOMAIN loans :
        loans[id].status = "APPROVED"
            => Cardinality(SchedulesOf(schedules, id)) = loans[id].term_months

\* sum of the principal portions of the installments of a loan, in cents
PrincipalSum(table, loan_id) ==
    SumOver(SchedulesOf(table, loan_id),
            [i \in DOMAIN table |-> table[i].principal_amount])

\* the installment as createTestPaymentSchedule inserted it
Unpaid(schedule) ==
    [schedule EXCEPT !.paid_amount = 0, !.paid_date = Null,
                     !.status = "PENDING", !.late_fee = 0]

\* one call of processPayment on the row, alone: the row it leaves and the
\* error it ends with
Alone(row, amount) ==
    IF row.paid_amount >= row.total_amount
    THEN [row |-> row, err |-> "Payment schedule is already fully paid"]
    ELSE [row |-> PaymentUpdate(row, row, amount, now), err |-> ""]

\* the calls of clients c and d have had the effect of c's call followed by
\* d's call
InSerialOrder(c, d) ==
    LET id == calls[c].args[1]
        first == Alone(Unpaid(schedules[id]), calls[c].args[2])
        second == Alone(first.row, calls[d].args[2])
    IN  /\ calls[c].err = first.err
        /\ calls[d].err = second.err
        /\ schedules[id] = second.row

\* C15, as claimed: when the calls of two clients on the same installment have
\* both ended, the installment and the outcomes of the calls are those of the
\* two calls made one after the other in some order, so that the paid amount
\* counts the amount of every accepted call
C15_PaymentsSerialized ==
    (/\ calls[1].pc = "done" /\ calls[2].pc = "done"
     /\ calls[1].args[1] = calls[2].args[1]
     /\ calls[1].args[1] \in DOMAIN schedules)
    => InSerialOrder(1, 2) \/ InSerialOrder(2, 1)

\* C16: the schedule of a simulation of a principal > 0 at a rate >= 0 over
\* term >= 1 months has term entries numbered 1..term, the last with remaining
\* balance 0, and its principal portions sum to the principal
C16_SimulationSchedule ==
    \A c \in Clients :
        calls[c].op = "calculateLoanSimulation"
        => LET amount == calls[c].args[1]
               termMonths == calls[c].args[3]
               rows == calls[c].local.payment_schedule
           IN  /\ Len(rows) = termMonths
               /\ \A i \in 1..termMonths : rows[i].month = i
               /\ rows[termMonths].remaining_balance = Zero
               /\ RSum([i \in DOMAIN rows |-> rows[i].principal]) = amount

\* 62.50 at 36% over 3 months
C16_Witness ==
    \E c \in Clients :
        /\ calls[c].op = "calculateLoanSimulation"
        /\ calls[c].args = <<R(125, 2), R(36, 1), 3>>
        /\ Len(calls[c].local.payment_schedule) = 3
        /\ calls[c].local.payment_schedule[1].interest = R(15, 8)
        /\ calls[c].local.payment_schedule[2].remaining_balance # Zero
        /\ calls[c].local.payment_schedule[3].remaining_balance = Zero
        /\ calls[c].local.payment_schedule[3].principal
               = calls[c].local.payment_schedule[2].remaining_balance

\* C17, as claimed: the principal portions of the installments approveLoan
\* persists for a loan sum to the amount of the loan
C17_PrincipalSum ==
    [][Approved' =>
        PrincipalSum(schedules', last'.id) = loans[last'.id].amount]_vars

Distributed == last.op = "distributeSHU" /\ last.err = ""

\* C14, as claimed: a distributeSHU that fails leaves no row behind and leaves
\* the distributed flag false: the state is the one before the call
C14_FailedDistributionUndone ==
    [][(last'.op = "distributeSHU" /\ last'.err # "")
       => /\ shuDistributions' = shuDistributions
          /\ shuCalculations' = shuCalculations]_vars

Calculated == last.op = "calculateSHU" /\ last.err = ""

\* the days from 1 January of the year to 1 January of the next, both included
DaysOfYear(year) == (365 * year)..(365 * (year + 1))

\* the cents a user deposited, and applied for, in the year
DepositedIn(u, year) ==
    SumOver({i \in DOMAIN savings :
                savings[i].transaction_date \in DaysOfYear(year)
                /\ savings[i].user_id = u},
            [i \in DOMAIN savings |-> savings[i].amount])

AppliedForIn(u, year) ==
    SumOver({i \in DOMAIN loans :
                loans[i].applied_at \in DaysOfYear(year)
                /\ loans[i].user_id = u},
            [i \in DOMAIN loans |-> loans[i].amount])

AllDepositedIn(year) ==
    SumOver(DOMAIN users, [u \in DOMAIN users |-> DepositedIn(u, year)])

AllAppliedForIn(year) ==
    SumOver(DOMAIN users, [u \in DOMAIN users |-> AppliedForIn(u, year)])

\* half x (part / whole), 0 when the whole is 0
HalfShare(half, part, whole) ==
    IF whole = 0 THEN Zero ELSE RMul(half, R(part, whole))

\* the provisional share C18 claims for a user, as a number of cents
ProvisionalClaimed(u, year, totalMemberShare) ==
    LET half == RMul(totalMemberShare, R(1, 2))
    IN  RAdd(HalfShare(half, DepositedIn(u, year), AllDepositedIn(year)),
             HalfShare(half, AppliedForIn(u, year), AllAppliedForIn(year)))

C20_YearUnique ==
    \A i, j \in DOMAIN shuCalculations :
        shuCalculations[i].year = shuCalculations[j].year => i = j

\* C19, as claimed: no calculation has two distribution rows for a member
C19_OneRowPerPair ==
    \A i, j \in DOMAIN shuDistributions :
        (/\ shuDistributions[i].shu_calculation_id
               = shuDistributions[j].shu_calculation_id
         /\ shuDistributions[i].user_id = shuDistributions[j].user_id)
        => i = j

\* the cents of the savings rows of a user
SavingsOf(u) ==
    SumOver({i \in DOMAIN savings : savings[i].user_id = u},
            [i \in DOMAIN savings |-> savings[i].amount])

\* the cents of the principal of the Completed loans of a user
CompletedPrincipalOf(u) ==
    SumOver({i \in DOMAIN loans :
                loans[i].status = "COMPLETED" /\ loans[i].user_id = u},
            [i \in DOMAIN loans |-> loans[i].amount])

\* sum of the share amounts of a sequence of distribution rows, in cents
ShareSum(rows) ==
    SumOver(DOMAIN rows, [i \in DOMAIN rows |-> rows[i].share_amount])

\* C11: the share amounts of the rows one successful distributeSHU returns sum
\* to the total member share of the calculation within the rounding of the
\* rows: at most half a cent for each row
C11_SharesSumToTotal ==
    [][Distributed' =>
        LET rows == SubSeq(shuDistributions', Len(shuDistributions) + 1,
                           Len(shuDistributions'))
            total == shuCalculations[last'.id].total_member_share
        IN  /\ Len(rows) >= 1
            /\ 2 * Abs(ShareSum(rows) - total) <= Len(rows)]_vars

\* three members without contributions share 400.00: 3 x 133.33 = 399.99
C11_Witness ==
    /\ Distributed
    /\ Cardinality(ActiveUsers) = 3
    /\ LET n == Len(shuDistributions)
           rows == SubSeq(shuDistributions, n - 2, n)
       IN  /\ \A i \in 1..3 : rows[i].distributed_at # Null
           /\ ShareSum(rows) = 39999
           /\ shuCalculations[last.id].total_member_share = 40000

\* the active members in the state before the call, and their contributions
ContributionOf(u) == SavingsOf(u) + CompletedPrincipalOf(u)

ContributionOfAll ==
    SumOver(ActiveUsers, [u \in ActiveUsers |-> ContributionOf(u)])

\* the share C12 claims for a member, as a number of cents
ShareClaimed(u, total) ==
    IF ContributionOfAll > 0
    THEN RMul(RInt(total), R(ContributionOf(u), ContributionOfAll))
    ELSE R(total, Cardinality(ActiveUsers))

\* C12, as claimed: a successful distributeSHU returns exactly one row for each
\* active member, whose share is exactly total member share x contribution of
\* the member / contribution of all active members, or total member share / n
\* when nobody contributed
C12_ExactShares ==
    [][Distributed' =>
        LET rows == SubSeq(shuDistributions', Len(shuDistributions) + 1,
                           Len(shuDistributions'))
            total == shuCalculations[last'.id].total_member_share
        IN  /\ Len(rows) = Cardinality(ActiveUsers)
            /\ {rows[i].user_id : i \in DOMAIN rows} = ActiveUsers
            /\ \A i \in DOMAIN rows :
                   RInt(rows[i].share_amount)
                       = ShareClaimed(rows[i].user_id, total)]_vars

\* C12, amended: the share of each row is that quotient rounded to the cent
C12_RoundedShares ==
    [][Distributed' =>
        LET rows == SubSeq(shuDistributions', Len(shuDistributions) + 1,
                           Len(shuDistributions'))
            total == shuCalculations[last'.id].total_member_share
        IN  /\ Len(rows) = Cardinality(ActiveUsers)
            /\ {rows[i].user_id : i \in DOMAIN rows} = ActiveUsers
            /\ \A i \in DOMAIN rows :
                   /\ rows[i].shu_calculation_id = last'.id
                   /\ rows[i].share_amount
                          = ToNumeric(ShareClaimed(rows[i].user_id, total))]_vars

\* savings of 100.00 and a Completed loan of 200.00 against savings of 50.00:
\* 400.00 is shared 342.86 to 57.14
C12_Witness ==
    /\ Distributed
    /\ ActiveUsers = {1, 2}
    /\ ContributionOf(1) = 30000
    /\ ContributionOf(2) = 5000
    /\ LET n == Len(shuDistributions)
       IN  /\ shuDistributions[n - 1].user_id = 1
           /\ shuDistributions[n - 1].distributed_at # Null
           /\ shuDistributions[n - 1].share_amount = 34286
           /\ shuDistributions[n].user_id = 2
           /\ shuDistributions[n].share_amount = 5714

\* C21, as claimed: no step lowers the paid amount of an installment, whatever
\* the order of the statements of the processPayment calls in progress
C21_PaidMonotonic ==
    [][\A i \in DOMAIN schedules :
          schedules'[i].paid_amount >= schedules[i].paid_amount]_vars

Created == last.op = "createLoan" /\ last.err = ""

\* the payment of an annuity of n months: amount x r(1 + r)^n / ((1 + r)^n - 1)
\* for the monthly rate r of a yearly rate in percent
AnnuityClaimed(amount, yearlyRate, n) ==
    LET r == RDiv(yearlyRate, RInt(1200))
        f == RPow(RAdd(One, r), n)
    IN  RDiv(RMul(amount, RMul(r, f)), RSub(f, One))

DepositedInFiscalYear(u, year) ==
    SumOver({i \in DOMAIN savings :
                YearOf(savings[i].transaction_date) = year
                /\ savings[i].user_id = u},
            [i \in DOMAIN savings |-> savings[i].amount])

AppliedForInFiscalYear(u, year) ==
    SumOver({i \in DOMAIN loans :
                YearOf(loans[i].applied_at) = year /\ loans[i].user_id = u},
            [i \in DOMAIN loans |-> loans[i].amount])

\* C23, as claimed: the contributions a successful calculateSHU(year) records
\* for a member are the deposits and the loans dated inside the fiscal year;
\* one dated at the first instant of the next year is not among them
C23_FiscalYearOnly ==
    [][Calculated' =>
        \A i \in (Len(shuDistributions) + 1)..Len(shuDistributions') :
            LET row == shuDistributions'[i]
            IN  /\ row.savings_contribution
                       = DepositedInFiscalYear(row.user_id, last'.id)
                /\ row.loan_contribution
                       = AppliedForInFiscalYear(row.user_id, last'.id)]_vars

\* the installment of a loan with the given number
InstallmentOf(table, loan_id, k) ==
    table[CHOOSE i \in SchedulesOf(table, loan_id) :
              table[i].installment_number = k]

\* the simulation of the loan at the rate the approval has stored
SimulationOf(old, new) ==
    Simulation(ParseFloat(old.amount), R(new.interest_rate, 100),
               old.term_months)

\* C24, as claimed: the installments an approval persists carry the principal,
\* interest and total amounts of the entries of the simulation of the same
\* amount, rate and term, and the loan its monthly payment
C24_SameAsSimulation ==
    [][Approved' =>
        LET id == last'.id
            sim == SimulationOf(loans[id], loans'[id])
        IN  /\ RInt(loans'[id].monthly_payment) = sim.monthly_payment
            /\ \A k \in 1..loans[id].term_months :
                   LET row == InstallmentOf(schedules', id, k)
                       entry == sim.payment_schedule[k]
                   IN  /\ RInt(row.principal_amount) = entry.principal
                       /\ RInt(row.interest_amount) = entry.interest
                       /\ RInt(row.total_amount) = entry.total]_vars

\* C24, amended: they carry the amounts of the simulation rounded to the cent
C24_RoundedSimulation ==
    [][Approved' =>
        LET id == last'.id
            sim == SimulationOf(loans[id], loans'[id])
        IN  /\ sim.monthly_payment.n > 0
            /\ Len(sim.payment_schedule) = loans[id].term_months
            /\ loans'[id].monthly_payment = ToNumeric(sim.monthly_payment)
            /\ \A k \in 1..loans[id].term_months :
                   LET row == InstallmentOf(schedules', id, k)
                       entry == sim.payment_schedule[k]
                   IN  /\ row.principal_amount = ToNumeric(entry.principal)
                       /\ row.interest_amount = ToNumeric(entry.interest)
                       /\ row.total_amount = ToNumeric(entry.total)]_vars

\* 300.00 at 12% over 3 months: 102.01 a month, the last principal 101.00
C24_Witness ==
    /\ Approved
    /\ loans[last.id].term_months = 3
    /\ loans[last.id].interest_rate = 1200
    /\ loans[last.id].monthly_payment = 10201
    /\ InstallmentOf(schedules, last.id, 3).principal_amount = 10100
    /\ InstallmentOf(schedules, last.id, 3).interest_amount = 101

\* the columns of an installment that processPayment does not set
KeptColumns(row) ==
    [loan_id |-> row.loan_id, installment_number |-> row.installment_number,
     due_date |-> row.due_date, principal_amount |-> row.principal_amount,
     interest_amount |-> row.interest_amount,
     total_amount |-> row.total_amount]

\* every installment of the loan is Paid
AllPaid(table, loan_id) ==
    /\ SchedulesOf(table, loan_id) # {}
    /\ \A i \in SchedulesOf(table, loan_id) : table[i].status = "PAID"

\* C25: a processPayment call, accepted or not, leaves the loans, the
\* transactions and every other table but payment_schedules as they are,
\* inserts and deletes no installment, changes no other installment and, of the
\* targeted one, no column but paid_amount, paid_date, status and late_fee; a
\* loan whose installments are all Paid after it still has a remaining balance
\* equal to its amount
C25_PaymentFrame ==
    [][last'.op = "processPayment" =>
        /\ loans' = loans
        /\ transactions' = transactions
        /\ <<users, savings, shuCalculations, shuDistributions>>'
               = <<users, savings, shuCalculations, shuDistributions>>
        /\ DOMAIN schedules' = DOMAIN schedules
        /\ \A i \in DOMAIN schedules :
               /\ i # last'.id => schedules'[i] = schedules[i]
               /\ KeptColumns(schedules'[i]) = KeptColumns(schedules[i])
        /\ \A id \in DOMAIN loans :
               (loans[id].status = "APPROVED" /\ AllPaid(schedules', id))
                   => /\ loans'[id].status = "APPROVED"
                      /\ loans'[id].remaining_balance = loans'[id].amount]_vars

\* the second of the two installments of an approved loan of 300.00 has just
\* been paid, the first was paid before
C25_Witness ==
    /\ Paid
    /\ last.id = 2
    /\ loans[1].status = "APPROVED"
    /\ Cardinality(SchedulesOf(schedules, 1)) = 2
    /\ AllPaid(schedules, 1)
    /\ schedules[1].paid_amount > 0
    /\ loans[1].remaining_balance = 30000
    /\ transactions = <<>>

\* C26: a step of createLoan, approveLoan or processPayment deletes no loan,
\* adds loans as Pending only, and changes the status of a loan only from
\* Pending to Approved or to Rejected; no loan is ever Active, Completed or
\* Overdue
C26_StatusTransitions ==
    [][/\ DOMAIN loans \subseteq DOMAIN loans'
       /\ \A id \in DOMAIN loans :
              \/ loans'[id].status = loans[id].status
              \/ /\ loans[id].status = "PENDING"
                 /\ loans'[id].status \in {"APPROVED", "REJECTED"}
                 /\ last'.op = "approveLoan"
       /\ \A id \in DOMAIN loans' :
              /\ id \notin DOMAIN loans => loans'[id].status = "PENDING"
              /\ loans'[id].status \in {"PENDING", "APPROVED", "REJECTED"}]_vars

\* the approval of a loan that was rejected before is refused: the loan stays
\* Rejected, without installments
C26_Witness ==
    /\ last.op = "approveLoan"
    /\ last.approved
    /\ last.err = "Loan is not pending approval"
    /\ loans[last.id].status = "REJECTED"
    /\ loans[last.id].approved_by = Admin
    /\ SchedulesOf(schedules, last.id) = {}

\* the rows of shu_distributions' that the step has inserted
InsertedRows ==
    SubSeq(shuDistributions', Len(shuDistributions) + 1,
           Len(shuDistributions'))

\* every user who deposited or applied for a loan in the year is Active
ContributorsActive(year) ==
    \A u \in DOMAIN users :
        (DepositedIn(u, year) > 0 \/ AppliedForIn(u, year) > 0)
            => users[u] = "ACTIVE"

BothTotalsPositive(year) ==
    AllDepositedIn(year) > 0 /\ AllAppliedForIn(year) > 0

\* C27, as claimed: the provisional shares one successful calculateSHU writes
\* sum to no more than the total member share (40% of the profit), and to the
\* total member share only when the year has savings and loans and all who
\* contributed them are Active
C27_ShareSumBounded ==
    [][Calculated' =>
        LET total == RMul(last'.amount, R(40, 100))
            sum == RInt(ShareSum(InsertedRows))
        IN  /\ RGeq(total, sum)
            /\ sum = total => /\ BothTotalsPositive(last'.id)
                              /\ ContributorsActive(last'.id)]_vars

\* C27, amended: each share written is the share of C18 rounded to the cent, so
\* that the sum exceeds the total member share by at most half a cent a row;
\* before the rounding the shares sum to no more than the total member share
\* and, for a profit > 0, to the total member share only when the year has
\* savings and loans and all who contributed them are Active
C27_RoundedShareSum ==
    [][Calculated' =>
        LET total == RMul(last'.amount, R(40, 100))
            rows == InsertedRows
            exact == [i \in DOMAIN rows |->
                         ProvisionalClaimed(rows[i].user_id, last'.id, total)]
            sum == RInt(ShareSum(rows))
        IN  /\ \A i \in DOMAIN rows :
                   rows[i].share_amount = ToNumeric(exact[i])
            /\ RGeq(total, RSum(exact))
            /\ RGeq(RAdd(total, R(Len(rows), 2)), sum)
            /\ (last'.amount.n > 0 /\ RSum(exact) = total)
               => /\ BothTotalsPositive(last'.id)
                  /\ ContributorsActive(last'.id)]_vars

\* a profit of 1000.03: the member share of 400.012 is stored as 400.01, and
\* the member with all the savings and the member with all the loans of the
\* year get 200.01 each
C27_Witness ==
    /\ Calculated
    /\ last.amount = R(100003, 1)
    /\ LET id == Len(shuCalculations)
           rows == {i \in DOMAIN shuDistributions :
                       shuDistributions[i].shu_calculation_id = id}
       IN  /\ shuCalculations[id].total_member_share = 40001
           /\ Cardinality(rows) = 2
           /\ \A i \in rows : shuDistributions[i].share_amount = 20001

\* the distribution rows that reference a calculation
RowsOfCalculation(id) ==
    {i \in DOMAIN shuDistributions :
        shuDistributions[i].shu_calculation_id = id}

\* C28, as claimed: the share amounts of all the rows that reference a
\* calculation sum to no more than its total member share
C28_SharesWithinTotal ==
    \A id \in DOMAIN shuCalculations :
        shuCalculations[id].total_member_share >= 0
        => SumOver(RowsOfCalculation(id),
                   [i \in DOMAIN shuDistributions |->
                       shuDistributions[i].share_amount])
               <= shuCalculations[id].total_member_share

\* the call of a client is an approveLoan of the loan that has ended well
Succeeded(c, loan_id) ==
    /\ calls[c].op = "approveLoan"
    /\ calls[c].args[1] = loan_id
    /\ calls[c].pc = "done"
    /\ calls[c].err = ""

\* C29, as claimed: whatever the order of the statements of two approveLoan
\* calls on a Pending loan, at most one of them succeeds, and the loan has at
\* most term_months installments, no two of them with the same number, and
\* none when it is Rejected
C29_OneDecision ==
    \A id \in DOMAIN loans :
        /\ ~(Succeeded(1, id) /\ Succeeded(2, id))
        /\ Cardinality(SchedulesOf(schedules, id)) <= loans[id].term_months
        /\ \A i, j \in SchedulesOf(schedules, id) :
               schedules[i].installment_number
                   = schedules[j].installment_number => i = j
        /\ loans[id].status = "REJECTED" => SchedulesOf(schedules, id) = {}

\* the member has a row of the calculation that carries a distribution time
HasDistributedRow(id, u) ==
    \E i \in RowsOfCalculation(id) :
        /\ shuDistributions[i].user_id = u
        /\ shuDistributions[i].distributed_at # Null

\* C30: in every state, between the statements of running calls and after
\* failed ones too, a calculation is marked distributed only if a call of
\* distributeSHU for it has ended well and every member of the list of active
\* members that call read has a row of the calculation with a distribution time
C30_MarkedAfterRows ==
    \A id \in DOMAIN shuCalculations :
        shuCalculations[id].distributed
        => \E c \in Clients :
               /\ calls[c].op = "distributeSHU"
               /\ calls[c].args = <<id>>
               /\ calls[c].pc = "done"
               /\ calls[c].err = ""
               /\ Len(calls[c].local.activeMembers) >= 1
               /\ \A k \in DOMAIN calls[c].local.activeMembers :
                      HasDistributedRow(id, calls[c].local.activeMembers[k])

\* the call of client 1 has marked calculation 1 for its three members, while
\* the call of client 2, which read the calculation before the mark, is
\* between its first and its second insert
C30_Witness ==
    /\ shuCalculations # <<>>
    /\ shuCalculations[1].distributed
    /\ calls[1].op = "distributeSHU" /\ calls[1].pc = "done"
    /\ calls[1].err = ""
    /\ Len(calls[1].local.activeMembers) = 3
    /\ calls[2].op = "distributeSHU" /\ calls[2].args = <<1>>
    /\ calls[2].pc = "insert"
    /\ calls[2].local.next = 2

====
